---- MODULE Spec2Model ----
(***************************************************************************)
(* Model of the iframe inspector popup (src/background.js): the capture    *)
(* pipeline handleCapture -> scrollAndGetRect -> CAPTURE_TAB -> cropImage, *)
(* the snapshot panel it drives, and the zoom engine of the snapshot view. *)
(*                                                                         *)
(* Numbers the code computes with floats are exact rationals <<n, d>>,     *)
(* d > 0, in lowest terms.                                                 *)
(***************************************************************************)
EXTENDS Integers, Sequences, FiniteSets, TLC

VARIABLES
    cropArgs,      \* the arguments of the cropImage call under study
    cropResult,    \* that call's promise: pending, or settled with a value
    zoom,          \* the zoom state {scale, tx, ty, fitScale}
    drag,          \* the drag in progress {startX, startY, tx0, ty0}, or none
    zoomCall,      \* the last zoom handler that ran, with its arguments and
                   \* the transform it found
    zsteps,        \* how many zoom/pan input events were handled
    img,           \* the #snapshot-img element
    ui,            \* the classes, flags and texts of the snapshot modal
    vpBox,         \* the layout size of #zoom-viewport when it is rendered
    page,          \* the iframes of the inspected page, in document order
    scrolledTo,    \* the ordinal of the iframe the page was last scrolled to
    iframeList,    \* the scanned iframe records
    currentTabId,  \* the inspected tab, or NoTab
    activeModalIndex,  \* the ordinal the open modal is about, or -1
    lastSnapshotUrl,   \* the data URL of the latest snapshot, or NoUrl
    timers,        \* how many 150 ms auto-capture timers are pending
    cap,           \* the handleCapture invocations: position, locals, outcome
    started,       \* how many handleCapture invocations got past the guard
    clicks,        \* how many card "snapshot" buttons were clicked
    highlightTimer,  \* _highlightTimer: the id of the debounce timer last set
    hlPending,     \* the debounce timers that are pending: [id, index]
    hlScripts,     \* the highlight / clear injections on their way to the page
    placeTimers,   \* the page's pending setTimeout(placeBox, 480)
    overlay,       \* the page's #__ifi_style__ and #__ifi_hl__ elements
    hlLog,         \* history: calls made, superseded, run on the page
    preview,       \* the preview modal: its elements and the current closure
    pvTimers,      \* the pending 8 s load timers of the preview: [id]
    worker         \* the messages the service worker's listener was called with

swVars == <<worker>>

pvVars == <<preview, pvTimers>>

hlVars == <<highlightTimer, hlPending, hlScripts, placeTimers, overlay, hlLog>>

cropVars == <<cropArgs, cropResult>>

zoomVars == <<zoom, drag, zoomCall, zsteps>>

domVars == <<img, ui, vpBox>>

capVars == <<page, scrolledTo, iframeList, currentTabId, activeModalIndex,
             lastSnapshotUrl, timers, cap, started, clicks>>

vars == <<cropArgs, cropResult, zoom, drag, zoomCall, zsteps, img, ui, vpBox,
          page, scrolledTo, iframeList, currentTabId, activeModalIndex,
          lastSnapshotUrl, timers, cap, started, clicks,
          highlightTimer, hlPending, hlScripts, placeTimers, overlay, hlLog,
          preview, pvTimers, worker>>

-----------------------------------------------------------------------------
(* Rational arithmetic. *)

Abs(n) == IF n < 0 THEN -n ELSE n

RECURSIVE GCD(_, _)
GCD(a, b) == IF b = 0 THEN a ELSE GCD(b, a % b)

\* n/d in lowest terms with a positive denominator (d # 0).
Rat(n, d) ==
    LET g == GCD(Abs(n), Abs(d))
        s == IF d < 0 THEN -1 ELSE 1
    IN  <<s * (n \div g), s * (d \div g)>>

RInt(n) == <<n, 1>>

RAdd(a, b) ==
    LET g == GCD(a[2], b[2])
    IN  Rat(a[1] * (b[2] \div g) + b[1] * (a[2] \div g), (a[2] \div g) * b[2])

RNeg(a) == <<-a[1], a[2]>>

RSub(a, b) == RAdd(a, RNeg(b))

\* Cross-reduced product, so that no intermediate exceeds the result.
RMul(a, b) ==
    LET g1 == GCD(Abs(a[1]), b[2])
        g2 == GCD(Abs(b[1]), a[2])
    IN  IF a[1] = 0 \/ b[1] = 0 THEN <<0, 1>>
        ELSE <<(a[1] \div g1) * (b[1] \div g2), (a[2] \div g2) * (b[2] \div g1)>>

\* a / b for b # 0.
RDiv(a, b) ==
    RMul(a, IF b[1] < 0 THEN <<-b[2], -b[1]>> ELSE <<b[2], b[1]>>)

Floor(a) == a[1] \div a[2]

\* a <= b: by the integer parts, and by the fractional parts when these agree.
RLe(a, b) ==
    IF Floor(a) # Floor(b) THEN Floor(a) < Floor(b)
    ELSE (a[1] % a[2]) * b[2] <= (b[1] % b[2]) * a[2]

RLt(a, b) == ~RLe(b, a)

RMin(a, b) == IF RLe(a, b) THEN a ELSE b

RMax(a, b) == IF RLe(a, b) THEN b ELSE a

\* Math.round: the nearest integer, halves towards +infinity.
Round(a) == (2 * a[1] + a[2]) \div (2 * a[2])

Min(a, b) == IF a <= b THEN a ELSE b

Max(a, b) == IF a <= b THEN b ELSE a

-----------------------------------------------------------------------------
(* Images.  A decoded screenshot is [kind |-> "tab", width, height]; its     *)
(* pixel at (i, j) is a value that identifies the position it came from.   *)
(* A canvas is the record of the one drawImage call made on it, and its    *)
(* PNG data URL carries the canvas unchanged (PNG is lossless).            *)

Transparent == <<-1, -1>>

\* The pixel of a decoded screenshot at column i, row j.
ImagePixel(image, i, j) ==
    IF 0 <= i /\ i < image.width /\ 0 <= j /\ j < image.height
    THEN <<i, j>>
    ELSE Transparent

\* ctx.drawImage(img, sx, sy, sw, sh, 0, 0, sw, sh) on a fresh canvas of
\* canvasW x canvasH: destination pixel (i, j) is the source pixel
\* (sx + i, sy + j); what lies outside the drawn rectangle or outside the
\* source image stays transparent.
drawImage(image, sx, sy, sw, sh, canvasW, canvasH) ==
    [kind |-> "canvas", width |-> canvasW, height |-> canvasH,
     image |-> image, sx |-> sx, sy |-> sy, sw |-> sw, sh |-> sh]

CanvasPixel(canvas, i, j) ==
    IF /\ 0 <= i /\ i < canvas.width /\ 0 <= j /\ j < canvas.height
       /\ i < canvas.sw /\ j < canvas.sh
    THEN ImagePixel(canvas.image, canvas.sx + i, canvas.sy + j)
    ELSE Transparent

OutOfBoundsMsg == "crop region outside captured image"
DecodeFailedMsg == "captured image failed to load"

\* rect.devicePixelRatio || 1
EffectiveDpr(rect) == IF rect.devicePixelRatio[1] = 0 THEN RInt(1) ELSE rect.devicePixelRatio

\* cropOnLoad without the clamp of the source rectangle to the image.
cropOnLoad_NoClamp(image, rect) ==
    LET dpr == EffectiveDpr(rect)
        sx == Round(RMul(rect.x, dpr))
        sy == Round(RMul(rect.y, dpr))
        sw == Round(RMul(RInt(rect.width), dpr))
        sh == Round(RMul(RInt(rect.height), dpr))
    IN  IF sw <= 0 \/ sh <= 0
        THEN [ok |-> FALSE, error |-> OutOfBoundsMsg]
        ELSE [ok |-> TRUE, url |-> drawImage(image, sx, sy, sw, sh, sw, sh)]

\* cropOnLoad reading the source at the CSS-pixel origin (x, y not scaled).
cropOnLoad_CssOrigin(image, rect) ==
    LET dpr == EffectiveDpr(rect)
        sx == Round(rect.x)
        sy == Round(rect.y)
        sw == Round(RMul(RInt(rect.width), dpr))
        sh == Round(RMul(RInt(rect.height), dpr))
        clampedSw == Min(sw, image.width - sx)
        clampedSh == Min(sh, image.height - sy)
    IN  IF clampedSw <= 0 \/ clampedSh <= 0
        THEN [ok |-> FALSE, error |-> OutOfBoundsMsg]
        ELSE [ok |-> TRUE,
              url |-> drawImage(image, sx, sy, clampedSw, clampedSh, clampedSw, clampedSh)]

\* img.onload of cropImage: the promise's settlement for a decoded screenshot.
cropOnLoad(image, rect) ==
    LET dpr == EffectiveDpr(rect)
        sx == Round(RMul(rect.x, dpr))
        sy == Round(RMul(rect.y, dpr))
        sw == Round(RMul(RInt(rect.width), dpr))
        sh == Round(RMul(RInt(rect.height), dpr))
        clampedSw == Min(sw, image.width - sx)
        clampedSh == Min(sh, image.height - sy)
    IN  IF clampedSw <= 0 \/ clampedSh <= 0
        THEN [ok |-> FALSE, error |-> OutOfBoundsMsg]
        ELSE [ok |-> TRUE,
              url |-> drawImage(image, sx, sy, clampedSw, clampedSh, clampedSw, clampedSh)]

\* cropImage(dataUrl, rect): a data URL that does not decode fires onerror.
cropImage(dataUrl, rect) ==
    IF dataUrl.kind = "tab"
    THEN cropOnLoad(dataUrl, rect)
    ELSE [ok |-> FALSE, error |-> DecodeFailedMsg]

Screenshot(w, h) == [kind |-> "tab", width |-> w, height |-> h]

CorruptDataUrl == [kind |-> "corrupt"]

Rect(x, y, w, h, dpr) ==
    [x |-> x, y |-> y, width |-> w, height |-> h, devicePixelRatio |-> dpr]

-----------------------------------------------------------------------------
(* The snapshot modal's DOM, as far as the code reads and writes it. *)

NoUrl == [kind |-> "none"]

\* const zoom = { scale: 1, tx: 0, ty: 0, fitScale: 1 }
ZoomInitial == [scale |-> RInt(1), tx |-> RInt(0), ty |-> RInt(0), fitScale |-> RInt(1)]

NoDrag == [active |-> FALSE]

NoZoomCall == [op |-> "none"]

DefaultHint == [kind |-> "default"]

\* popup.html as loaded: the modal hidden, the snapshot panel idle, no image.
UiInitial ==
    [modalHidden |-> TRUE, btnDisabled |-> FALSE, btnFull |-> TRUE,
     idleHidden |-> FALSE, loadingHidden |-> TRUE, viewportHidden |-> TRUE,
     controlsHidden |-> TRUE, hint |-> DefaultHint]

ImgInitial ==
    [src |-> NoUrl, pending |-> FALSE, onload |-> 0,
     naturalWidth |-> 0, naturalHeight |-> 0]

\* The size #zoom-viewport is laid out with.
VpLayout == [w |-> 8, h |-> 6]

\* #zoom-viewport is laid out only while neither it nor the modal around it
\* carries the class "hidden"; an element that is not laid out has
\* clientWidth = clientHeight = 0.
ViewportRendered(u) == ~u.modalHidden /\ ~u.viewportHidden

clientWidth(u, box) == IF ViewportRendered(u) THEN box.w ELSE 0

clientHeight(u, box) == IF ViewportRendered(u) THEN box.h ELSE 0

-----------------------------------------------------------------------------
(* The zoom engine. *)

\* const MIN = 0.05, MAX = 10
ZoomMIN == Rat(1, 20)
ZoomMAX == RInt(10)

\* The zoom buttons' factors and the wheel's per-tick factor.
ZoomInFactor == Rat(5, 4)
ZoomOutFactor == Rat(4, 5)
WheelFactor == Rat(28, 25)

\* zoomFit centring the image at the scale it finds.
zoomFit_KeepsScale(z, cw, ch, natW, natH) ==
    IF natW = 0 THEN z
    ELSE LET fit == RMin(RMin(Rat(cw, natW), Rat(ch, natH)), RInt(1))
         IN  [scale |-> z.scale, fitScale |-> fit,
              tx |-> RDiv(RSub(RInt(cw), RMul(RInt(natW), z.scale)), RInt(2)),
              ty |-> RDiv(RSub(RInt(ch), RMul(RInt(natH), z.scale)), RInt(2))]

\* zoomFit without the cap at 1.
zoomFit_NoCap(z, cw, ch, natW, natH) ==
    IF natW = 0 THEN z
    ELSE LET fit == RMin(Rat(cw, natW), Rat(ch, natH))
         IN  [scale |-> fit, fitScale |-> fit,
              tx |-> RDiv(RSub(RInt(cw), RMul(RInt(natW), fit)), RInt(2)),
              ty |-> RDiv(RSub(RInt(ch), RMul(RInt(natH), fit)), RInt(2))]

\* zoomFit centring relative to the translate it finds.
zoomFit_Accumulates(z, cw, ch, natW, natH) ==
    IF natW = 0 THEN z
    ELSE LET fit == RMin(RMin(Rat(cw, natW), Rat(ch, natH)), RInt(1))
         IN  [scale |-> fit, fitScale |-> fit,
              tx |-> RAdd(z.tx, RDiv(RSub(RInt(cw), RMul(RInt(natW), fit)), RInt(2))),
              ty |-> RAdd(z.ty, RDiv(RSub(RInt(ch), RMul(RInt(natH), fit)), RInt(2)))]

\* zoomFit(): nothing without a loaded image; otherwise the largest scale
\* <= 1 that shows the whole image, centred.
zoomFit(z, cw, ch, natW, natH) ==
    IF natW = 0 THEN z
    ELSE LET scaleX == Rat(cw, natW)
             scaleY == Rat(ch, natH)
             fit == RMin(RMin(scaleX, scaleY), RInt(1))
         IN  [scale |-> fit, fitScale |-> fit,
              tx |-> RDiv(RSub(RInt(cw), RMul(RInt(natW), fit)), RInt(2)),
              ty |-> RDiv(RSub(RInt(ch), RMul(RInt(natH), fit)), RInt(2))]

\* zoomAtPoint without the upper clamp.
zoomAtPoint_NoMax(z, newScale, vpX, vpY) ==
    LET clamped == RMax(ZoomMIN, newScale)
        imgX == RDiv(RSub(vpX, z.tx), z.scale)
        imgY == RDiv(RSub(vpY, z.ty), z.scale)
    IN  [z EXCEPT !.tx = RSub(vpX, RMul(imgX, clamped)),
                  !.ty = RSub(vpY, RMul(imgY, clamped)),
                  !.scale = clamped]

\* zoomAtPoint moving the translate by the requested, unclamped scale.
zoomAtPoint_UnclampedAnchor(z, newScale, vpX, vpY) ==
    LET clamped == RMax(ZoomMIN, RMin(ZoomMAX, newScale))
        imgX == RDiv(RSub(vpX, z.tx), z.scale)
        imgY == RDiv(RSub(vpY, z.ty), z.scale)
    IN  [z EXCEPT !.tx = RSub(vpX, RMul(imgX, newScale)),
                  !.ty = RSub(vpY, RMul(imgY, newScale)),
                  !.scale = clamped]

\* zoomAtPoint(newScale, vpX, vpY)
zoomAtPoint(z, newScale, vpX, vpY) ==
    LET clamped == RMax(ZoomMIN, RMin(ZoomMAX, newScale))
        imgX == RDiv(RSub(vpX, z.tx), z.scale)
        imgY == RDiv(RSub(vpY, z.ty), z.scale)
    IN  [z EXCEPT !.tx = RSub(vpX, RMul(imgX, clamped)),
                  !.ty = RSub(vpY, RMul(imgY, clamped)),
                  !.scale = clamped]

ZoomAtPointCall(z, newScale, vpX, vpY) ==
    [op |-> "zoomAtPoint", requested |-> newScale, vpX |-> vpX, vpY |-> vpY, before |-> z]

\* zoomBy(factor): zoomAtPoint at the centre of the viewport.
zoomBy(factor) ==
    LET centerX == Rat(clientWidth(ui, vpBox), 2)
        centerY == Rat(clientHeight(ui, vpBox), 2)
        newScale == RMul(zoom.scale, factor)
    IN  /\ zoom' = zoomAtPoint(zoom, newScale, centerX, centerY)
        /\ zoomCall' = ZoomAtPointCall(zoom, newScale, centerX, centerY)


-----------------------------------------------------------------------------
(* The inspected page and the scan. *)

MaxCaptures == 2
MaxClicks == 2

NoTab == 0

\* window.innerWidth x window.innerHeight of the inspected page (CSS pixels)
\* and its devicePixelRatio.
PageViewport == [w |-> 4, h |-> 3]
PageDpr == RInt(2)

Frame(kind, hasSrc) == [kind |-> kind, hasSrc |-> hasSrc]

\* The pages under study: iframes that fit the viewport, one larger than it,
\* one without size, one that cannot be scrolled into view, and one with
\* neither src nor srcdoc ahead of a regular one.
Pages ==
    { <<Frame("normal", TRUE), Frame("large", TRUE)>>,
      <<Frame("normal", TRUE), Frame("zero", TRUE)>>,
      <<Frame("offscreen", TRUE), Frame("normal", TRUE)>>,
      <<Frame("normal", FALSE), Frame("normal", TRUE)>> }

\* getBoundingClientRect() of the iframe with ordinal index, once it has been
\* scrolled to the centre of the viewport.
BoundingBox(frame, index) ==
    CASE frame.kind = "normal" ->
             [left |-> Rat(index, 2), top |-> RInt(index),
              right |-> Rat(index + 4, 2), bottom |-> RInt(index + 2)]
      [] frame.kind = "large" ->
             [left |-> RInt(-1), top |-> RInt(-1), right |-> RInt(6), bottom |-> RInt(5)]
      [] frame.kind = "zero" ->
             [left |-> RInt(1), top |-> RInt(1), right |-> RInt(1), bottom |-> RInt(2)]
      [] OTHER ->
             [left |-> RInt(-3), top |-> RInt(1), right |-> RInt(-1), bottom |-> RInt(2)]

\* collectIframes() followed by handleScan's filter: the records of the
\* iframes that have a src or a srcdoc, each with its document ordinal.
RECURSIVE ScanFrom(_, _)
ScanFrom(frames, index) ==
    IF index >= Len(frames) THEN <<>>
    ELSE (IF frames[index + 1].hasSrc THEN <<[index |-> index]>> ELSE <<>>)
         \o ScanFrom(frames, index + 1)

handleScan(frames) == ScanFrom(frames, 0)

NoRect == [found |-> FALSE]

\* scrollAndGetRect(index), the value its promise resolves with: null when
\* there is no such iframe, else the intersection of its box with the
\* viewport.
scrollAndGetRect(frames, index) ==
    IF index < 0 \/ index >= Len(frames) THEN NoRect
    ELSE LET rect == BoundingBox(frames[index + 1], index)
             x == RMax(rect.left, RInt(0))
             y == RMax(rect.top, RInt(0))
             r == RMin(rect.right, RInt(PageViewport.w))
             b == RMin(rect.bottom, RInt(PageViewport.h))
         IN  [found |-> TRUE, x |-> x, y |-> y,
              width |-> Round(RSub(r, x)),
              height |-> Round(RSub(b, y)),
              fullWidth |-> Round(RSub(rect.right, rect.left)),
              fullHeight |-> Round(RSub(rect.bottom, rect.top)),
              devicePixelRatio |-> PageDpr]

-----------------------------------------------------------------------------
(* The capture collaborator, as handleCapture sees it. *)

CaptureMsgs == {"Tabs cannot be captured right now", "The 'activeTab' permission is not in effect"}

InjectErrorMsg == "Cannot access contents of the page"

NoReceiverMsg == "Could not establish connection"

\* What captureVisibleTab renders: the visible tab at its raster size, or
\* (the window showing something else by now) an image of another size.
TabScreenshot(w, h, view) == [kind |-> "tab", width |-> w, height |-> h, view |-> view]

FullScreenshot(view) ==
    TabScreenshot(Round(RMul(RInt(PageViewport.w), PageDpr)),
                  Round(RMul(RInt(PageViewport.h), PageDpr)), view)

\* The responses to one CAPTURE_TAB message.
TabResponses(view) ==
    { [kind |-> "dataUrl", dataUrl |-> FullScreenshot(view)],
      [kind |-> "dataUrl", dataUrl |-> TabScreenshot(1, 1, view)],
      [kind |-> "dataUrl", dataUrl |-> CorruptDataUrl],
      [kind |-> "empty"],
      [kind |-> "rejected", message |-> NoReceiverMsg] }
    \cup { [kind |-> "error", error |-> m] : m \in CaptureMsgs }

-----------------------------------------------------------------------------
(* handleCapture. *)

NotFoundMsg == "cannot locate the iframe element"
ZeroSizeMsg == "iframe has zero size, cannot capture"
NoDataMsg == "capture failed: no image data returned"

InFlight == {"geom", "tab", "decode", "render"}

Unused ==
    [pc |-> "unused", captureIndex |-> -1, rect |-> [found |-> FALSE, set |-> FALSE],
     result |-> [kind |-> "none"], cropped |-> NoUrl,
     outcome |-> "none", reason |-> "", log |-> <<>>]

\* The checks on the value scrollAndGetRect resolved with (lines 703-705):
\* the message of the error thrown, or "" when the capture goes on.
GeometryCheck_StrictlyNegative(rect) ==
    IF ~rect.found THEN NotFoundMsg
    ELSE IF rect.width < 0 \/ rect.height < 0 THEN ZeroSizeMsg
    ELSE ""

GeometryCheck_OneMessage(rect) ==
    IF ~rect.found THEN NotFoundMsg
    ELSE IF rect.width <= 0 \/ rect.height <= 0 THEN NotFoundMsg
    ELSE ""

GeometryCheck(rect) ==
    IF ~rect.found THEN NotFoundMsg
    ELSE IF rect.width <= 0 \/ rect.height <= 0 THEN ZeroSizeMsg
    ELSE ""

\* The checks on the CAPTURE_TAB response (lines 708-715).
ResultCheck_IgnoresEmpty(result) ==
    CASE result.kind = "rejected" -> result.message
      [] result.kind = "error" -> result.error
      [] OTHER -> ""

ResultCheck(result) ==
    CASE result.kind = "rejected" -> result.message
      [] result.kind = "error" -> result.error
      [] result.kind = "empty" -> NoDataMsg
      [] OTHER -> ""

FailedHint(message) == [kind |-> "failed", message |-> message]

SizeHint(w, h) == [kind |-> "size", width |-> w, height |-> h]

\* The finally block: the spinner goes, the capture button works again.
Finally_KeepsDisabled(u) == [u EXCEPT !.loadingHidden = TRUE]

Finally(u) == [u EXCEPT !.loadingHidden = TRUE, !.btnDisabled = FALSE]

\* The catch block.
Catch_ClearsSnapshot(u, message) ==
    [ui |-> [u EXCEPT !.idleHidden = FALSE, !.controlsHidden = TRUE, !.btnFull = TRUE,
                      !.hint = FailedHint(message)],
     lastSnapshotUrl |-> NoUrl]

Catch(u, message) ==
    [ui |-> [u EXCEPT !.idleHidden = FALSE, !.controlsHidden = TRUE, !.btnFull = TRUE,
                      !.hint = FailedHint(message)],
     lastSnapshotUrl |-> lastSnapshotUrl]

\* Invocation i throws: catch, finally, and it is over.
Fail(i, c, message) ==
    LET caught == Catch(ui, message)
    IN  /\ ui' = Finally(caught.ui)
        /\ lastSnapshotUrl' = caught.lastSnapshotUrl
        /\ cap' = [cap EXCEPT ![i] = [c EXCEPT !.pc = "done", !.outcome = "failed",
                                               !.reason = message]]

handleCapture_Unguarded ==
    /\ started < MaxCaptures
    /\ started' = started + 1
    /\ ui' = [ui EXCEPT !.btnDisabled = TRUE, !.idleHidden = TRUE,
                        !.loadingHidden = FALSE, !.viewportHidden = TRUE,
                        !.controlsHidden = TRUE, !.hint = DefaultHint]
    /\ cap' = [cap EXCEPT ![started + 1] =
                   [Unused EXCEPT !.pc = "geom", !.captureIndex = activeModalIndex,
                                  !.log = <<"scrollAndGetRect">>]]

\* handleCapture(): the guard, the loading state, the geometry injection.
handleCapture ==
    IF activeModalIndex < 0 \/ currentTabId = NoTab
    THEN UNCHANGED <<ui, cap, started>>
    ELSE /\ started < MaxCaptures
         /\ started' = started + 1
         /\ ui' = [ui EXCEPT !.btnDisabled = TRUE, !.idleHidden = TRUE,
                             !.loadingHidden = FALSE, !.viewportHidden = TRUE,
                             !.controlsHidden = TRUE, !.hint = DefaultHint]
         /\ cap' = [cap EXCEPT ![started + 1] =
                        [Unused EXCEPT !.pc = "geom", !.captureIndex = activeModalIndex,
                                       !.log = <<"scrollAndGetRect">>]]

\* btn-capture click
CaptureClick ==
    /\ ~ui.modalHidden /\ ~ui.btnDisabled
    /\ handleCapture
    /\ UNCHANGED <<swVars, pvVars, hlVars, cropVars, zoomVars, img, vpBox, page, scrolledTo, iframeList,
                   currentTabId, activeModalIndex, lastSnapshotUrl, timers, clicks>>

\* The 150 ms timer of openModalAndCapture fires.
TimerFire ==
    /\ timers > 0
    /\ timers' = timers - 1
    /\ handleCapture
    /\ UNCHANGED <<swVars, pvVars, hlVars, cropVars, zoomVars, img, vpBox, page, scrolledTo, iframeList,
                   currentTabId, activeModalIndex, lastSnapshotUrl, clicks>>

\* resetSnapshotPanel()
resetSnapshotPanel(u) ==
    [u EXCEPT !.idleHidden = FALSE, !.loadingHidden = TRUE, !.viewportHidden = TRUE,
              !.controlsHidden = TRUE, !.btnFull = TRUE, !.hint = DefaultHint]

\* A card's snapshot button: openModalAndCapture(index), index being the
\* document ordinal of the card's record.  The cards lie under the modal's
\* backdrop, so a card is clicked only while the modal is closed.
CardClick ==
    /\ ui.modalHidden
    /\ clicks < MaxClicks
    /\ clicks' = clicks + 1
    /\ \E k \in 1..Len(iframeList) :
          LET index == iframeList[k].index
          IN  IF index >= Len(iframeList)
              THEN UNCHANGED <<activeModalIndex, lastSnapshotUrl, ui>>
              ELSE /\ activeModalIndex' = index
                   /\ lastSnapshotUrl' = NoUrl
                   /\ ui' = [resetSnapshotPanel(ui) EXCEPT !.modalHidden = FALSE]
    /\ timers' = timers + 1
    /\ UNCHANGED <<swVars, pvVars, hlVars, cropVars, zoomVars, img, vpBox, page, scrolledTo, iframeList,
                   currentTabId, cap, started>>

\* closeModal(): the backdrop, the close button, the Escape key.
CloseModal ==
    /\ ui' = [ui EXCEPT !.modalHidden = TRUE]
    /\ activeModalIndex' = -1
    /\ UNCHANGED <<swVars, pvVars, hlVars, cropVars, zoomVars, img, vpBox, page, scrolledTo, iframeList,
                   currentTabId, lastSnapshotUrl, timers, cap, started, clicks>>

\* The page removes its last iframe.
PageMutate ==
    /\ Len(page) > 0
    /\ page' = SubSeq(page, 1, Len(page) - 1)
    /\ UNCHANGED <<swVars, pvVars, hlVars, cropVars, zoomVars, domVars, scrolledTo, iframeList, currentTabId,
                   activeModalIndex, lastSnapshotUrl, timers, cap, started, clicks>>

\* The geometry injection of invocation i settles; handleCapture goes on up
\* to the CAPTURE_TAB message.
GeomRespond(i) ==
    /\ cap[i].pc = "geom"
    /\ \/ /\ Fail(i, cap[i], InjectErrorMsg)
          /\ UNCHANGED scrolledTo
       \/ LET rect == scrollAndGetRect(page, cap[i].captureIndex)
              c == [cap[i] EXCEPT !.rect = rect]
              thrown == GeometryCheck(rect)
          IN  /\ scrolledTo' = IF rect.found THEN cap[i].captureIndex ELSE scrolledTo
              /\ IF thrown # ""
                 THEN Fail(i, c, thrown)
                 ELSE /\ cap' = [cap EXCEPT ![i] =
                                    [c EXCEPT !.pc = "tab",
                                              !.log = Append(c.log, "CAPTURE_TAB")]]
                      /\ UNCHANGED <<ui, lastSnapshotUrl>>
    /\ UNCHANGED <<swVars, pvVars, hlVars, cropVars, zoomVars, img, vpBox, page, iframeList, currentTabId,
                   activeModalIndex, timers, started, clicks>>

\* The CAPTURE_TAB message of invocation i is answered; handleCapture goes on
\* up to cropImage's img.src = dataUrl.
TabRespond(i) ==
    /\ cap[i].pc = "tab"
    /\ \E result \in TabResponses(scrolledTo) :
          LET c == [cap[i] EXCEPT !.result = result]
              thrown == ResultCheck(result)
          IN  IF thrown # ""
              THEN Fail(i, c, thrown)
              ELSE /\ cap' = [cap EXCEPT ![i] =
                                 [c EXCEPT !.pc = "decode",
                                           !.log = Append(c.log, "cropImage")]]
                   /\ UNCHANGED <<ui, lastSnapshotUrl>>
    /\ UNCHANGED <<swVars, pvVars, hlVars, cropVars, zoomVars, img, vpBox, page, scrolledTo, iframeList,
                   currentTabId, activeModalIndex, timers, started, clicks>>

\* The screenshot of invocation i decodes or fails to; on a crop, handleCapture
\* publishes it and waits for #snapshot-img to load it.
DecodeRespond(i) ==
    /\ cap[i].pc = "decode"
    /\ LET cropped == cropImage(cap[i].result.dataUrl, cap[i].rect)
       IN  IF ~cropped.ok
           THEN /\ Fail(i, cap[i], cropped.error)
                /\ UNCHANGED img
           ELSE /\ lastSnapshotUrl' = cropped.url
                /\ img' = [img EXCEPT !.onload = i, !.src = cropped.url, !.pending = TRUE]
                /\ cap' = [cap EXCEPT ![i] =
                              [@ EXCEPT !.pc = "render", !.cropped = cropped.url,
                                        !.log = Append(@, "publish")]]
                /\ UNCHANGED ui
    /\ UNCHANGED <<swVars, pvVars, hlVars, cropVars, drag, zoom, zoomCall, zsteps, vpBox, page, scrolledTo,
                   iframeList, currentTabId, activeModalIndex, timers, started, clicks>>

\* #snapshot-img fires load: the invocation whose resolver is its onload shows
\* the viewport, fits the image and ends.
ImgLoad ==
    /\ img.pending
    /\ LET i == img.onload
           loaded == [img EXCEPT !.pending = FALSE,
                                 !.naturalWidth = img.src.width,
                                 !.naturalHeight = img.src.height]
           shown == [ui EXCEPT !.viewportHidden = FALSE, !.btnFull = FALSE,
                               !.controlsHidden = FALSE,
                               !.hint = SizeHint(loaded.naturalWidth, loaded.naturalHeight)]
       IN  /\ img' = loaded
           /\ IF cap[i].pc = "render"
              THEN /\ zoom' = zoomFit(zoom, clientWidth(shown, vpBox),
                                      clientHeight(shown, vpBox),
                                      loaded.naturalWidth, loaded.naturalHeight)
                   /\ zoomCall' = [op |-> "zoomFit", before |-> zoom, prevOp |-> zoomCall.op]
                   /\ ui' = Finally(shown)
                   /\ cap' = [cap EXCEPT ![i] = [@ EXCEPT !.pc = "done", !.outcome = "ready"]]
              ELSE UNCHANGED <<zoom, zoomCall, ui, cap>>
    /\ UNCHANGED <<swVars, pvVars, hlVars, cropVars, drag, zsteps, vpBox, page, scrolledTo, iframeList,
                   currentTabId, activeModalIndex, lastSnapshotUrl, timers, started,
                   clicks>>

-----------------------------------------------------------------------------
(* The hover highlight: the debounce in the popup, the overlay in the page. *)

MaxHighlightCalls == 3

\* No #__ifi_style__, no #__ifi_hl__ element (boxes counts them, box is the
\* label of the first).
NoOverlay == [style |-> FALSE, box |-> -1, boxes |-> 0]

NoHighlightLog ==
    [calls |-> 0, last |-> "none", superseded |-> {}, ran |-> {}, mutated |-> {},
     placed |-> 0, threw |-> {}, cleared |-> {}]

\* Nothing hovered yet.
HlFrameInit ==
    /\ highlightTimer = 0 /\ hlPending = {} /\ hlScripts = <<>>
    /\ placeTimers = {} /\ overlay = NoOverlay /\ hlLog = NoHighlightLog

\* clearTimeout that cancels nothing.
clearTimeout_Noop(pending, id) == pending

\* clearTimeout(id)
clearTimeout(pending, id) == {t \in pending : t.id # id}

\* placeBox appending a new box each time.
placeBox_AlwaysCreates(o, idx) == [o EXCEPT !.box = idx, !.boxes = @ + 1]

\* placeBox(): the box found by its id is reused, else one is created; it is
\* labelled and laid over the iframe.
placeBox(o, idx) == [o EXCEPT !.box = idx, !.boxes = IF @ = 0 THEN 1 ELSE @]

\* The injected function of clearPageIframeHighlight: the first element with
\* each id, if there is one, is removed; threw tells whether it raised.
removeOverlay(o) ==
    [overlay |-> [style |-> FALSE,
                  boxes |-> IF o.boxes > 0 THEN o.boxes - 1 ELSE 0,
                  box |-> IF o.boxes > 1 THEN o.box ELSE -1],
     threw |-> FALSE]

\* highlightPageIframe(index): the timer last set is cancelled, a new one set.
highlightPageIframe(index) ==
    LET id == hlLog.calls + 1
    IN  /\ hlPending' = clearTimeout(hlPending, highlightTimer)
                           \cup {[id |-> id, index |-> index]}
        /\ highlightTimer' = id
        /\ hlLog' = [hlLog EXCEPT !.calls = id, !.last = "show",
                         !.superseded = @ \cup {t.id : t \in hlPending}]
        /\ UNCHANGED <<hlScripts, placeTimers, overlay>>

\* mouseenter on a card
CardEnter ==
    /\ hlLog.calls < MaxHighlightCalls
    /\ \E k \in 1..Len(iframeList) : highlightPageIframe(iframeList[k].index)
    /\ UNCHANGED <<swVars, pvVars, cropVars, zoomVars, domVars, capVars>>

\* A debounce timer fires, 80 ms after it was set: the injection is sent.
HighlightTimerFire ==
    /\ \E t \in hlPending :
          /\ hlPending' = hlPending \ {t}
          /\ hlScripts' = IF currentTabId = NoTab THEN hlScripts
                          ELSE Append(hlScripts,
                                      [kind |-> "show", idx |-> t.index, call |-> t.id])
    /\ UNCHANGED <<highlightTimer, placeTimers, overlay, hlLog>>
    /\ UNCHANGED <<swVars, pvVars, cropVars, zoomVars, domVars, capVars>>

\* clearPageIframeHighlight without its clearTimeout.
clearPageIframeHighlight_KeepsTimer ==
    /\ hlLog.calls < MaxHighlightCalls
    /\ hlPending' = hlPending
    /\ hlScripts' = IF currentTabId = NoTab THEN hlScripts
                    ELSE Append(hlScripts, [kind |-> "clear", call |-> hlLog.calls + 1])
    /\ hlLog' = [hlLog EXCEPT !.calls = @ + 1, !.last = "clear",
                              !.cleared = @ \cup {t.id : t \in hlPending}]
    /\ UNCHANGED <<highlightTimer, placeTimers, overlay>>
    /\ UNCHANGED <<swVars, pvVars, cropVars, zoomVars, domVars, capVars>>

\* clearPageIframeHighlight(): mouseleave of a card or of the document, blur,
\* beforeunload.
clearPageIframeHighlight ==
    /\ hlLog.calls < MaxHighlightCalls
    /\ hlPending' = clearTimeout(hlPending, highlightTimer)
    /\ hlScripts' = IF currentTabId = NoTab THEN hlScripts
                    ELSE Append(hlScripts, [kind |-> "clear", call |-> hlLog.calls + 1])
    /\ hlLog' = [hlLog EXCEPT !.calls = @ + 1, !.last = "clear",
                              !.cleared = @ \cup {t.id : t \in hlPending}]
    /\ UNCHANGED <<highlightTimer, placeTimers, overlay>>
    /\ UNCHANGED <<swVars, pvVars, cropVars, zoomVars, domVars, capVars>>

\* The injected function of highlightPageIframe runs in the page: the style
\* goes in; an iframe in view gets the box at once, one out of view is
\* scrolled to and gets it 480 ms later; without the iframe, nothing more.
ShowInPage(script) ==
    LET styled == [overlay EXCEPT !.style = TRUE]
        log == [hlLog EXCEPT !.ran = @ \cup {script.call},
                             !.mutated = @ \cup {script.call}]
    IN  IF script.idx >= Len(page)
        THEN overlay' = styled /\ hlLog' = log /\ UNCHANGED <<placeTimers, scrolledTo>>
        ELSE \E inView \in BOOLEAN :
                /\ page[script.idx + 1].kind = "offscreen" => ~inView
                /\ IF inView
                   THEN /\ overlay' = placeBox(styled, script.idx)
                        /\ hlLog' = [log EXCEPT !.placed = @ + 1]
                        /\ UNCHANGED <<placeTimers, scrolledTo>>
                   ELSE /\ overlay' = styled
                        /\ hlLog' = log
                        /\ scrolledTo' = script.idx
                        /\ placeTimers' = placeTimers
                               \cup {[idx |-> script.idx, call |-> script.call]}

\* The oldest injection in flight runs in the page, or is rejected (the page
\* cannot be injected), which both callers ignore.
ScriptRun ==
    /\ hlScripts # <<>>
    /\ hlScripts' = Tail(hlScripts)
    /\ LET script == Head(hlScripts)
       IN  \/ /\ script.kind = "show"
              /\ ShowInPage(script)
           \/ /\ script.kind = "clear"
              /\ LET removed == removeOverlay(overlay)
                 IN  /\ overlay' = removed.overlay
                     /\ hlLog' = [hlLog EXCEPT
                                    !.ran = @ \cup {script.call},
                                    !.threw = IF removed.threw
                                              THEN @ \cup {script.call} ELSE @]
              /\ UNCHANGED <<placeTimers, scrolledTo>>
           \/ UNCHANGED <<overlay, placeTimers, scrolledTo, hlLog>>
    /\ UNCHANGED <<highlightTimer, hlPending>>
    /\ UNCHANGED <<swVars, pvVars, cropVars, zoomVars, domVars, page, iframeList, currentTabId,
                   activeModalIndex, lastSnapshotUrl, timers, cap, started, clicks>>

\* placeBox(), 480 ms after the scroll.
PlaceTimerFire ==
    /\ \E t \in placeTimers :
          /\ placeTimers' = placeTimers \ {t}
          /\ overlay' = placeBox(overlay, t.idx)
    /\ hlLog' = [hlLog EXCEPT !.placed = @ + 1]
    /\ UNCHANGED <<highlightTimer, hlPending, hlScripts>>
    /\ UNCHANGED <<swVars, pvVars, cropVars, zoomVars, domVars, capVars>>

-----------------------------------------------------------------------------
(* The embedded preview of a card's URL. *)

MaxPreviewEvents == 4

\* The preview modal as popup.html loads it; loadTimer is the variable of the
\* openIframePreview call whose handlers are installed (0: no timer yet).
PreviewClosed ==
    [open |-> FALSE, attempt |-> "none", loadingHidden |-> TRUE,
     blockedHidden |-> TRUE, loadTimer |-> 0, timersSet |-> 0, events |-> 0,
     last |-> "none"]

PvFrameInit == preview = PreviewClosed /\ pvTimers = {}

\* A click on the preview's buttons or on a card's open button.
PreviewEvent == preview.events < MaxPreviewEvents

\* setTimeout(..., 8000) assigned to loadTimer.
SetLoadTimer(pv) ==
    [pv EXCEPT !.loadTimer = pv.timersSet + 1, !.timersSet = @ + 1]

\* openIframePreview(url, width, height), from a card's open button: the
\* state is reset, a timer set, the handlers replaced by this call's, the
\* URL loaded.
openIframePreview ==
    /\ PreviewEvent /\ ~preview.open
    /\ iframeList # <<>>
    /\ preview' = [SetLoadTimer(preview) EXCEPT
                     !.open = TRUE, !.attempt = "loading", !.loadingHidden = FALSE,
                     !.blockedHidden = TRUE, !.events = @ + 1, !.last = "open"]
    /\ pvTimers' = pvTimers \cup {[id |-> preview.timersSet + 1]}
    /\ UNCHANGED <<swVars, hlVars, cropVars, zoomVars, domVars, capVars>>

\* The reload button without its timer.
PreviewReload_NoTimer ==
    /\ PreviewEvent /\ preview.open
    /\ preview' = [preview EXCEPT
                     !.attempt = "loading", !.loadingHidden = FALSE,
                     !.blockedHidden = TRUE, !.events = @ + 1, !.last = "reload"]
    /\ pvTimers' = pvTimers
    /\ UNCHANGED <<swVars, hlVars, cropVars, zoomVars, domVars, capVars>>

\* ipm-btn-reload click
PreviewReload ==
    /\ PreviewEvent /\ preview.open
    /\ preview' = [SetLoadTimer(preview) EXCEPT
                     !.attempt = "loading", !.loadingHidden = FALSE,
                     !.blockedHidden = TRUE, !.events = @ + 1, !.last = "reload"]
    /\ pvTimers' = pvTimers \cup {[id |-> preview.timersSet + 1]}
    /\ UNCHANGED <<swVars, hlVars, cropVars, zoomVars, domVars, capVars>>

\* The iframe fires load: onLoad
PreviewLoad ==
    /\ preview.attempt = "loading"
    /\ preview' = [preview EXCEPT !.attempt = "loaded", !.loadingHidden = TRUE,
                                  !.last = "load"]
    /\ pvTimers' = clearTimeout(pvTimers, preview.loadTimer)
    /\ UNCHANGED <<swVars, hlVars, cropVars, zoomVars, domVars, capVars>>

\* The iframe fires error: onError
PreviewError ==
    /\ preview.attempt = "loading"
    /\ preview' = [preview EXCEPT !.attempt = "errored", !.loadingHidden = TRUE,
                                  !.blockedHidden = FALSE, !.last = "error"]
    /\ pvTimers' = clearTimeout(pvTimers, preview.loadTimer)
    /\ UNCHANGED <<swVars, hlVars, cropVars, zoomVars, domVars, capVars>>

\* A load timer fires, 8 s after it was set.
PreviewTimerFire ==
    /\ \E t \in pvTimers :
          /\ pvTimers' = pvTimers \ {t}
          /\ preview' = [preview EXCEPT !.loadingHidden = TRUE, !.blockedHidden = FALSE,
                                        !.last = "timeout"]
    /\ UNCHANGED <<swVars, hlVars, cropVars, zoomVars, domVars, capVars>>

\* ipm-btn-close click
PreviewClose ==
    /\ PreviewEvent /\ preview.open
    /\ preview' = [preview EXCEPT !.open = FALSE, !.attempt = "none",
                                  !.events = @ + 1, !.last = "close"]
    /\ pvTimers' = clearTimeout(pvTimers, preview.loadTimer)
    /\ UNCHANGED <<swVars, hlVars, cropVars, zoomVars, domVars, capVars>>

-----------------------------------------------------------------------------
(* The service worker: the onMessage listener and captureTab. *)

MaxMessages == 3

\* The types of the messages that reach the listener: the one it knows and
\* any other.
MessageTypes == {"CAPTURE_TAB", "OTHER"}

NoOutcome == [kind |-> "none"]

SwFrameInit == worker = <<>>

\* How chrome.tabs.captureVisibleTab settles: with a data URL, or rejected.
CaptureOutcomes(view) ==
    { [kind |-> "resolved", dataUrl |-> FullScreenshot(view)],
      [kind |-> "resolved", dataUrl |-> TabScreenshot(1, 1, view)] }
    \cup { [kind |-> "rejected", message |-> m] : m \in CaptureMsgs }

\* captureTab(): the value its promise is fulfilled with; it never rejects.
captureTab(outcome) ==
    IF outcome.kind = "resolved"
    THEN [kind |-> "dataUrl", dataUrl |-> outcome.dataUrl]
    ELSE [kind |-> "error", error |-> outcome.message]

Respond_AlsoCatches(outcome) ==
    <<captureTab(outcome), [kind |-> "error", error |-> "sent"]>>

\* captureTab(...).then(sendResponse).catch(...): the sendResponse calls made
\* once captureVisibleTab has settled.  The catch callback runs only when
\* captureTab rejects or sendResponse throws, and neither happens.
Respond(outcome) == <<captureTab(outcome)>>

\* The listener's synchronous part: a CAPTURE_TAB message starts captureTab
\* and the listener returns true; for another type it returns undefined.
onMessage(type) ==
    IF type = "CAPTURE_TAB"
    THEN [type |-> type, returned |-> TRUE, call |-> "pending",
          outcome |-> NoOutcome, responses |-> <<>>]
    ELSE [type |-> type, returned |-> FALSE, call |-> "none",
          outcome |-> NoOutcome, responses |-> <<>>]

\* A message reaches the listener.
OnMessage ==
    /\ Len(worker) < MaxMessages
    /\ \E type \in MessageTypes : worker' = Append(worker, onMessage(type))
    /\ UNCHANGED <<pvVars, hlVars, cropVars, zoomVars, domVars, capVars>>

\* captureVisibleTab settles for message k: captureTab returns and the
\* promise chain of the listener answers.
CaptureVisibleTabSettle ==
    /\ \E k \in 1..Len(worker) :
          /\ worker[k].call = "pending"
          /\ \E outcome \in CaptureOutcomes(scrolledTo) :
                worker' = [worker EXCEPT ![k] =
                              [@ EXCEPT !.call = "settled", !.outcome = outcome,
                                        !.responses = @ \o Respond(outcome)]]
    /\ UNCHANGED <<pvVars, hlVars, cropVars, zoomVars, domVars, capVars>>

-----------------------------------------------------------------------------
(* What each specification leaves as the popup loads it. *)

\* Outside the capture pipeline nothing is scanned, open or in flight.
CapFrameInit ==
    /\ page = <<>> /\ scrolledTo = -1 /\ iframeList = <<>> /\ currentTabId = 1
    /\ activeModalIndex = -1 /\ lastSnapshotUrl = NoUrl /\ timers = 0
    /\ cap = [i \in 1..MaxCaptures |-> Unused] /\ started = 0 /\ clicks = 0
    /\ HlFrameInit
    /\ PvFrameInit
    /\ SwFrameInit

\* Everything but the cropImage call is as the popup loads it.
CropFrameInit ==
    /\ zoom = ZoomInitial /\ drag = NoDrag /\ zoomCall = NoZoomCall /\ zsteps = 0
    /\ img = ImgInitial /\ ui = UiInitial /\ vpBox = VpLayout
    /\ CapFrameInit

ZoomFrameInit ==
    /\ cropArgs = [dataUrl |-> CorruptDataUrl, rect |-> Rect(RInt(0), RInt(0), 1, 1, RInt(1))]
    /\ cropResult = [settled |-> FALSE]

-----------------------------------------------------------------------------
(* The popup: card clicks, captures, and the collaborators' answers. *)

\* The popup after init() and its first scan of one of the pages.
Init ==
    /\ page \in Pages
    /\ currentTabId \in {NoTab, 1}
    /\ iframeList = IF currentTabId = NoTab THEN <<>> ELSE handleScan(page)
    /\ scrolledTo = -1
    /\ activeModalIndex = -1
    /\ lastSnapshotUrl = NoUrl
    /\ timers = 0
    /\ cap = [i \in 1..MaxCaptures |-> Unused]
    /\ started = 0
    /\ clicks = 0
    /\ HlFrameInit
    /\ PvFrameInit
    /\ SwFrameInit
    /\ img = ImgInitial /\ ui = UiInitial /\ vpBox = VpLayout
    /\ zoom = ZoomInitial /\ drag = NoDrag /\ zoomCall = NoZoomCall /\ zsteps = 0
    /\ ZoomFrameInit

Next ==
    \/ CardClick
    \/ CloseModal
    \/ CaptureClick
    \/ TimerFire
    \/ PageMutate
    \/ \E i \in 1..MaxCaptures : GeomRespond(i)
    \/ \E i \in 1..MaxCaptures : TabRespond(i)
    \/ \E i \in 1..MaxCaptures : DecodeRespond(i)
    \/ ImgLoad

Spec == Init /\ [][Next]_vars

-----------------------------------------------------------------------------
(* cropImage on its own: every call the bounds allow, then its settlement. *)

MaxCropSide == 3
MaxCropHalves == 6

\* Device pixel ratios of common displays and browser zoom levels.
CropDprs == {RInt(1), Rat(5, 4), Rat(3, 2), RInt(2)}

CropImages == {Screenshot(3, 2), Screenshot(4, 3), Screenshot(6, 5)}

\* x and y are max(left, 0) and max(top, 0) of a bounding box (fractional
\* CSS pixels, never negative); width and height come out of Math.round.
CropRects ==
    { Rect(Rat(x2, 2), Rat(y2, 2), w, h, dpr) :
        x2 \in 0..MaxCropHalves, y2 \in {0, 1, 2, 5},
        w \in 0..MaxCropSide, h \in {0, 1, MaxCropSide}, dpr \in CropDprs }

ScenarioImage == Screenshot(1600, 1200)
ScenarioRect == Rect(RInt(10), RInt(20), 200, 100, RInt(2))

CropInputs ==
    { [dataUrl |-> im, rect |-> r] : im \in CropImages, r \in CropRects }
    \cup { [dataUrl |-> CorruptDataUrl, rect |-> r] :
             r \in {Rect(RInt(0), RInt(0), 1, 1, RInt(1))} }
    \cup { [dataUrl |-> ScenarioImage, rect |-> ScenarioRect] }

CropInit ==
    /\ cropArgs \in CropInputs
    /\ cropResult = [settled |-> FALSE]
    /\ CropFrameInit

CropCall ==
    /\ cropResult = [settled |-> FALSE]
    /\ cropResult' = [settled |-> TRUE,
                      value |-> cropImage(cropArgs.dataUrl, cropArgs.rect)]
    /\ UNCHANGED <<swVars, pvVars, hlVars, cropArgs, zoomVars, domVars, capVars>>

CropNext == CropCall

CropSpec == CropInit /\ [][CropNext]_vars

-----------------------------------------------------------------------------
(* The zoom engine under user input: the wheel, the zoom buttons, the      *)
(* double click and the drag, on a snapshot that has just been shown.      *)

MaxZoomSteps == 3
SeedClicks == 10
MaxMagnitude == 50000000

\* Natural sizes of cropped snapshots: smaller than the viewport, equal to
\* it, wider, and so large that the fit scale is 1/16 or 1/32.
ZoomImageSizes ==
    {[w |-> 4, h |-> 3], [w |-> 8, h |-> 6], [w |-> 16, h |-> 6], [w |-> 6, h |-> 12],
     [w |-> 128, h |-> 96], [w |-> 256, h |-> 192]}

\* Cursor positions inside the viewport (relative to its top-left corner).
WheelPoints == {<<0, 0>>, <<3, 6>>, <<8, 1>>}

\* Cursor positions in the window, for the drag.
MousePoints == {<<1, 1>>, <<4, 2>>, <<6, 7>>}

\* The panel after a successful capture of an image of the given size.
ReadyUi ==
    [modalHidden |-> FALSE, btnDisabled |-> FALSE, btnFull |-> FALSE,
     idleHidden |-> TRUE, loadingHidden |-> TRUE, viewportHidden |-> FALSE,
     controlsHidden |-> FALSE, hint |-> DefaultHint]

LoadedImg(size) ==
    [src |-> drawImage(Screenshot(size.w, size.h), 0, 0, size.w, size.h, size.w, size.h),
     pending |-> FALSE, onload |-> 0,
     naturalWidth |-> size.w, naturalHeight |-> size.h]

\* The transform after n clicks on the zoom-in button.
RECURSIVE ZoomInTimes(_, _, _)
ZoomInTimes(z, n, box) ==
    IF n = 0 THEN z
    ELSE ZoomInTimes(zoomAtPoint(z, RMul(z.scale, ZoomInFactor), Rat(box.w, 2), Rat(box.h, 2)),
                     n - 1, box)

ZoomInit ==
    /\ vpBox = VpLayout
    /\ ui = ReadyUi
    /\ \E size \in ZoomImageSizes :
          /\ img = LoadedImg(size)
          /\ \E n \in {0, SeedClicks} :
                /\ n > 0 => size = [w |-> 8, h |-> 6]
                /\ zoom = ZoomInTimes(zoomFit(ZoomInitial, vpBox.w, vpBox.h, size.w, size.h),
                                      n, vpBox)
    /\ drag = NoDrag
    /\ zoomCall = NoZoomCall
    /\ zsteps = 0
    /\ ZoomFrameInit
    /\ CapFrameInit

ZoomStep ==
    /\ zsteps < MaxZoomSteps
    /\ zsteps' = zsteps + 1
    /\ UNCHANGED <<swVars, pvVars, hlVars, cropVars, domVars, capVars>>

ControlsRendered == ~ui.modalHidden /\ ~ui.controlsHidden

\* The numbers of the transform are small enough to compute one more zoom.
Computable(z) ==
    \A r \in {z.scale, z.tx, z.ty} : Abs(r[1]) <= MaxMagnitude /\ r[2] <= MaxMagnitude

\* btn-zoom-in click
ZoomInClick ==
    /\ ControlsRendered
    /\ Computable(zoom)
    /\ zoomBy(ZoomInFactor)
    /\ UNCHANGED drag
    /\ ZoomStep

\* btn-zoom-out click
ZoomOutClick ==
    /\ ControlsRendered
    /\ Computable(zoom)
    /\ zoomBy(ZoomOutFactor)
    /\ UNCHANGED drag
    /\ ZoomStep

ZoomFitCall ==
    /\ zoom' = zoomFit(zoom, clientWidth(ui, vpBox), clientHeight(ui, vpBox),
                       img.naturalWidth, img.naturalHeight)
    /\ zoomCall' = [op |-> "zoomFit", before |-> zoom, prevOp |-> zoomCall.op]

\* btn-zoom-fit click
ZoomFitClick ==
    /\ ControlsRendered
    /\ ZoomFitCall
    /\ UNCHANGED drag
    /\ ZoomStep

\* dblclick on the viewport
DblClick ==
    /\ ViewportRendered(ui)
    /\ ZoomFitCall
    /\ UNCHANGED drag
    /\ ZoomStep

wheelFactor_Asymmetric(deltaY) == IF deltaY < 0 THEN WheelFactor ELSE Rat(9, 10)

\* The factor of one wheel tick: 1.12 in, 1 / 1.12 out.
wheelFactor(deltaY) == IF deltaY < 0 THEN WheelFactor ELSE RDiv(RInt(1), WheelFactor)

\* What a wheel event keeps of the handler that ran before it: for a wheel
\* tick its direction, cursor, requested scale and the transform it found.
WheelPrev(c) ==
    IF "deltaY" \in DOMAIN c
    THEN [wheel |-> TRUE, deltaY |-> c.deltaY, vpX |-> c.vpX, vpY |-> c.vpY,
          requested |-> c.requested, before |-> c.before]
    ELSE [wheel |-> FALSE]

\* wheel on the viewport: deltaY < 0 zooms in, anything else zooms out.
Wheel ==
    /\ ViewportRendered(ui)
    /\ Computable(zoom)
    /\ \E deltaY \in {-1, 0, 1}, p \in WheelPoints :
          LET factor == wheelFactor(deltaY)
              newScale == RMul(zoom.scale, factor)
          IN  /\ zoom' = zoomAtPoint(zoom, newScale, RInt(p[1]), RInt(p[2]))
              /\ zoomCall' = ZoomAtPointCall(zoom, newScale, RInt(p[1]), RInt(p[2]))
                                @@ [deltaY |-> deltaY, prev |-> WheelPrev(zoomCall)]
    /\ UNCHANGED drag
    /\ ZoomStep

\* mousedown on the viewport: only the left button starts a drag.
MouseDown ==
    /\ ViewportRendered(ui)
    /\ \E button \in {0, 2}, p \in MousePoints :
          /\ drag' = IF button # 0 THEN drag
                     ELSE [active |-> TRUE, startX |-> p[1], startY |-> p[2],
                           tx0 |-> zoom.tx, ty0 |-> zoom.ty]
          /\ zoomCall' = [op |-> "mousedown", button |-> button,
                          clientX |-> p[1], clientY |-> p[2], before |-> zoom]
    /\ UNCHANGED zoom
    /\ ZoomStep

\* mousemove keeping the image's origin right of and below the viewport's.
MouseMove_Clamped ==
    /\ \E p \in MousePoints :
          /\ zoom' = IF ~drag.active THEN zoom
                     ELSE [zoom EXCEPT
                             !.tx = RMax(RInt(0), RAdd(drag.tx0, RInt(p[1] - drag.startX))),
                             !.ty = RMax(RInt(0), RAdd(drag.ty0, RInt(p[2] - drag.startY)))]
          /\ zoomCall' = [op |-> "mousemove", clientX |-> p[1], clientY |-> p[2],
                          dragging |-> drag, before |-> zoom]
    /\ UNCHANGED drag
    /\ ZoomStep

\* mousemove anywhere in the window
MouseMove ==
    /\ \E p \in MousePoints :
          /\ zoom' = IF ~drag.active THEN zoom
                     ELSE [zoom EXCEPT !.tx = RAdd(drag.tx0, RInt(p[1] - drag.startX)),
                                       !.ty = RAdd(drag.ty0, RInt(p[2] - drag.startY))]
          /\ zoomCall' = [op |-> "mousemove", clientX |-> p[1], clientY |-> p[2],
                          dragging |-> drag, before |-> zoom]
    /\ UNCHANGED drag
    /\ ZoomStep

\* mouseup anywhere in the window
MouseUp ==
    /\ drag' = NoDrag
    /\ zoomCall' = [op |-> "mouseup", before |-> zoom]
    /\ UNCHANGED zoom
    /\ ZoomStep

ZoomNext ==
    \/ ZoomInClick
    \/ ZoomOutClick
    \/ ZoomFitClick
    \/ DblClick
    \/ Wheel
    \/ MouseDown
    \/ MouseMove
    \/ MouseUp

ZoomSpec == ZoomInit /\ [][ZoomNext]_vars

-----------------------------------------------------------------------------
(* The viewer: captures of one page, with the zoom and drag interactions on
   whatever the snapshot panel shows. *)

\* One card click and two zoom or drag events per behaviour.
MaxViewerClicks == 1
MaxViewerSteps == 2

ViewerInit ==
    /\ Init
    /\ page = <<Frame("normal", TRUE), Frame("large", TRUE)>>
    /\ currentTabId = 1

ViewerInteraction ==
    \/ ZoomInClick
    \/ ZoomOutClick
    \/ ZoomFitClick
    \/ DblClick
    \/ Wheel
    \/ MouseDown
    \/ MouseMove
    \/ MouseUp

ViewerNext ==
    \/ clicks < MaxViewerClicks /\ CardClick
    \/ CloseModal
    \/ CaptureClick
    \/ TimerFire
    \/ \E i \in 1..MaxCaptures : GeomRespond(i)
    \/ \E i \in 1..MaxCaptures : TabRespond(i)
    \/ \E i \in 1..MaxCaptures : DecodeRespond(i)
    \/ ImgLoad
    \/ zsteps < MaxViewerSteps /\ ViewerInteraction

ViewerSpec == ViewerInit /\ [][ViewerNext]_vars


-----------------------------------------------------------------------------
(* The popup's cards hovered over a scanned page. *)

HighlightNext ==
    \/ CardEnter
    \/ HighlightTimerFire
    \/ clearPageIframeHighlight
    \/ ScriptRun
    \/ PlaceTimerFire
    \/ PageMutate

HighlightSpec == Init /\ [][HighlightNext]_vars

-----------------------------------------------------------------------------
(* The preview opened from the cards of a scanned page. *)

PreviewNext ==
    \/ openIframePreview
    \/ PreviewReload
    \/ PreviewLoad
    \/ PreviewError
    \/ PreviewTimerFire
    \/ PreviewClose

PreviewSpec == Init /\ [][PreviewNext]_vars

-----------------------------------------------------------------------------
(* The service worker answering the messages sent to it. *)

WorkerNext ==
    \/ OnMessage
    \/ CaptureVisibleTabSettle

WorkerSpec == Init /\ [][WorkerNext]_vars

-----------------------------------------------------------------------------
(* The cards of pages where the scan drops an iframe ahead of others. *)

\* Pages of three iframes, one of them with neither src nor srcdoc.
CardPages ==
    { <<Frame("normal", FALSE), Frame("normal", TRUE), Frame("normal", TRUE)>>,
      <<Frame("normal", TRUE), Frame("normal", FALSE), Frame("normal", TRUE)>> }

\* The record openModal reads to fill the modal: iframeList[index].
ModalRecord == iframeList[activeModalIndex + 1]

CardInit ==
    /\ page \in CardPages
    /\ currentTabId \in {NoTab, 1}
    /\ iframeList = IF currentTabId = NoTab THEN <<>> ELSE handleScan(page)
    /\ scrolledTo = -1
    /\ activeModalIndex = -1
    /\ lastSnapshotUrl = NoUrl
    /\ timers = 0
    /\ cap = [i \in 1..MaxCaptures |-> Unused]
    /\ started = 0
    /\ clicks = 0
    /\ HlFrameInit
    /\ PvFrameInit
    /\ SwFrameInit
    /\ img = ImgInitial /\ ui = UiInitial /\ vpBox = VpLayout
    /\ zoom = ZoomInitial /\ drag = NoDrag /\ zoomCall = NoZoomCall /\ zsteps = 0
    /\ ZoomFrameInit

CardSpec == CardInit /\ [][Next]_vars

-----------------------------------------------------------------------------
(* Properties of cropImage (checked under CropSpec). *)

RasterX(rect) == Round(RMul(rect.x, EffectiveDpr(rect)))
RasterY(rect) == Round(RMul(rect.y, EffectiveDpr(rect)))
RasterW(rect) == Round(RMul(RInt(rect.width), EffectiveDpr(rect)))
RasterH(rect) == Round(RMul(RInt(rect.height), EffectiveDpr(rect)))

\* The rect has positive size and, scaled by dpr, lies inside the image.
FullyInside(rect, image) ==
    LET dpr == EffectiveDpr(rect)
    IN  /\ rect.width >= 1 /\ rect.height >= 1
        /\ RLe(RInt(0), rect.x) /\ RLe(RInt(0), rect.y)
        /\ RLe(RMul(RAdd(rect.x, RInt(rect.width)), dpr), RInt(image.width))
        /\ RLe(RMul(RAdd(rect.y, RInt(rect.height)), dpr), RInt(image.height))

CropDecoded == cropResult.settled /\ cropArgs.dataUrl.kind = "tab"

\* Every pixel of the cropped image is the source pixel at the raster offset.
CropPixelsMatch(url, image, rect) ==
    \A i \in 0..(url.width - 1), j \in 0..(url.height - 1) :
        CanvasPixel(url, i, j) = ImagePixel(image, RasterX(rect) + i, RasterY(rect) + j)

ScenarioHolds ==
    (cropResult.settled /\ cropArgs = [dataUrl |-> ScenarioImage, rect |-> ScenarioRect]) =>
        /\ cropResult.value.ok
        /\ cropResult.value.url.width = 400 /\ cropResult.value.url.height = 200
        /\ cropResult.value.url.sx = 20 /\ cropResult.value.url.sy = 40

\* C2 as stated: a rect fully inside the image at its dpr is cropped to
\* exactly round(width*dpr) x round(height*dpr), pixels taken from the raster
\* offset (round(x*dpr), round(y*dpr)); the 1600x1200 scenario gives 400x200
\* from (20, 40).
C2_CropExactSize ==
    /\ (CropDecoded /\ FullyInside(cropArgs.rect, cropArgs.dataUrl)) =>
          /\ cropResult.value.ok
          /\ cropResult.value.url.width = RasterW(cropArgs.rect)
          /\ cropResult.value.url.height = RasterH(cropArgs.rect)
          /\ CropPixelsMatch(cropResult.value.url, cropArgs.dataUrl, cropArgs.rect)
    /\ ScenarioHolds

\* C2 amended: a rect of positive size fully inside the image at its dpr is
\* cropped to min(round(width*dpr), imageWidth - round(x*dpr)) x
\* min(round(height*dpr), imageHeight - round(y*dpr)), which is
\* round(width*dpr) x round(height*dpr) whenever the separately rounded origin
\* and size still fit the image; its pixels are the source pixels at the
\* raster offset, and the 1600x1200 scenario gives 400x200 from (20, 40).
C2_CropClampedSize ==
    /\ (CropDecoded /\ FullyInside(cropArgs.rect, cropArgs.dataUrl)) =>
          LET r == cropArgs.rect
              im == cropArgs.dataUrl
              v == cropResult.value
          IN  /\ v.ok
              /\ v.url.width = Min(RasterW(r), im.width - RasterX(r))
              /\ v.url.height = Min(RasterH(r), im.height - RasterY(r))
              /\ (RasterX(r) + RasterW(r) <= im.width) => v.url.width = RasterW(r)
              /\ (RasterY(r) + RasterH(r) <= im.height) => v.url.height = RasterH(r)
              /\ CropPixelsMatch(v.url, im, r)
    /\ ScenarioHolds

\* A scaled crop at a non-zero offset of a rect fully inside the image.
C2_Witness ==
    /\ CropDecoded /\ FullyInside(cropArgs.rect, cropArgs.dataUrl)
    /\ cropResult.value.ok
    /\ cropArgs.rect.devicePixelRatio = Rat(3, 2)
    /\ RasterX(cropArgs.rect) > 0 /\ RasterY(cropArgs.rect) > 0
    /\ cropResult.value.url.width = RasterW(cropArgs.rect)
    /\ cropResult.value.url.width > 1

\* C3: the cropped size is min(requested, image - origin) on each axis, the
\* source rectangle read stays inside the image, and cropImage rejects with
\* the out-of-bounds error exactly when a clamped dimension is <= 0.
C3_Clamping ==
    CropDecoded =>
        LET r == cropArgs.rect
            im == cropArgs.dataUrl
            v == cropResult.value
            cw == Min(RasterW(r), im.width - RasterX(r))
            ch == Min(RasterH(r), im.height - RasterY(r))
        IN  /\ v.ok <=> (cw > 0 /\ ch > 0)
            /\ ~v.ok => v.error = OutOfBoundsMsg
            /\ v.ok => /\ v.url.width = cw /\ v.url.height = ch
                       /\ v.url.width > 0 /\ v.url.height > 0
                       /\ v.url.sx >= 0 /\ v.url.sy >= 0
                       /\ v.url.sx + v.url.sw <= im.width
                       /\ v.url.sy + v.url.sh <= im.height

\* A crop whose requested raster extent exceeded the image and was clamped.
C3_Witness ==
    /\ CropDecoded /\ cropResult.value.ok
    /\ RasterX(cropArgs.rect) + RasterW(cropArgs.rect) > cropArgs.dataUrl.width + 1
    /\ cropResult.value.url.width < RasterW(cropArgs.rect)

-----------------------------------------------------------------------------
(* Properties of the zoom engine (checked under ZoomSpec). *)

\* The image-space point that the transform z shows at viewport point (px, py).
ImagePointUnder(z, px, py) ==
    <<RDiv(RSub(px, z.tx), z.scale), RDiv(RSub(py, z.ty), z.scale)>>

\* C4: after zoomAtPoint(s2, px, py) the image point that was under (px, py)
\* is still under (px, py), whether or not s2 was clamped.
C4_AnchorInvariance ==
    zoomCall.op = "zoomAtPoint" =>
        ImagePointUnder(zoom, zoomCall.vpX, zoomCall.vpY)
            = ImagePointUnder(zoomCall.before, zoomCall.vpX, zoomCall.vpY)

\* A wheel zoom away from the centre whose requested scale was clamped at MIN
\* and which moved the image.
C4_Witness ==
    /\ zoomCall.op = "zoomAtPoint"
    /\ RLt(zoomCall.requested, ZoomMIN)
    /\ zoomCall.vpX = RInt(3) /\ zoomCall.vpY = RInt(6)
    /\ zoom.scale # zoomCall.before.scale
    /\ zoom.tx # zoomCall.before.tx

\* C5: whatever was requested, the scale zoomAtPoint leaves is in [0.05, 10].
C5_ZoomBounds ==
    zoomCall.op = "zoomAtPoint" =>
        RLe(ZoomMIN, zoom.scale) /\ RLe(zoom.scale, ZoomMAX)

\* A zoom whose requested scale was above MAX and ended at MAX.
C5_Witness ==
    /\ zoomCall.op = "zoomAtPoint"
    /\ RLt(ZoomMAX, zoomCall.requested)
    /\ RLt(zoomCall.before.scale, ZoomMAX)
    /\ zoom.scale = ZoomMAX

-----------------------------------------------------------------------------
(* Properties of the capture pipeline (checked under Spec). *)

Captures == 1..MaxCaptures

Logged(c, step) == \E k \in 1..Len(c.log) : c.log[k] = step

\* What the snapshot panel publishes of a capture's result.
Published == <<lastSnapshotUrl, img, ui.hint>>

\* C1: a capture for target A that is still in flight when a later capture,
\* the latest one, for another target B has completed, is discarded: none of
\* its remaining steps changes lastSnapshotUrl, the displayed image or the
\* size hint / failure message, so that the published result is B's outcome.
C1_LastWriteWins ==
    [][\A a \in Captures, b \in Captures :
          ( /\ a < b /\ b = started
            /\ cap[b].pc = "done"
            /\ cap[a].pc \in InFlight
            /\ cap[a].captureIndex # cap[b].captureIndex
            /\ cap'[a] # cap[a] )
          => Published' = Published]_vars

\* C10: no two capture pipelines are between start and completion at once.
C10_AtMostOneInFlight ==
    Cardinality({i \in Captures : cap[i].pc \in InFlight}) <= 1

\* C6: the step at which an invocation fails leaves lastSnapshotUrl and the
\* displayed image as they were, executes no further step of the invocation
\* (which never reached the publishing step), shows the failure, and the
\* invocation is over for good.
C6_FailFast ==
    [][\A i \in Captures :
          /\ (cap[i].pc \in InFlight /\ cap'[i].outcome = "failed") =>
                /\ lastSnapshotUrl' = lastSnapshotUrl
                /\ img' = img
                /\ cap'[i].pc = "done"
                /\ cap'[i].log = cap[i].log
                /\ ~Logged(cap'[i], "publish")
                /\ cap'[i].cropped = NoUrl
                /\ ui'.hint = FailedHint(cap'[i].reason)
          /\ cap[i].pc = "done" => cap'[i] = cap[i]]_vars

\* A crop that failed while an earlier snapshot of the same modal was published.
C6_Witness ==
    \E i \in Captures :
        /\ cap[i].outcome = "failed" /\ cap[i].reason = OutOfBoundsMsg
        /\ lastSnapshotUrl # NoUrl
        /\ ui.hint = FailedHint(OutOfBoundsMsg)

\* C7: a resolved rect of width 0 or height 0 fails the capture with the
\* zero-size reason, and its CAPTURE_TAB message is never sent.
C7_ZeroSizeShortCircuit ==
    \A i \in Captures :
        (cap[i].rect.found /\ (cap[i].rect.width = 0 \/ cap[i].rect.height = 0)) =>
            /\ cap[i].pc = "done" /\ cap[i].outcome = "failed"
            /\ cap[i].reason = ZeroSizeMsg
            /\ ~Logged(cap[i], "CAPTURE_TAB")

C7_Witness ==
    \E i \in Captures :
        /\ cap[i].rect.found /\ cap[i].rect.width = 0 /\ cap[i].rect.height > 0
        /\ cap[i].outcome = "failed"

\* The cause of a failure, from what the collaborators answered.
Cause(c) ==
    CASE c.rect = NoRect -> "not found"
      [] c.rect.found /\ (c.rect.width <= 0 \/ c.rect.height <= 0) -> "zero size"
      [] c.result.kind = "error" -> "capture error"
      [] /\ c.result.kind = "dataUrl" /\ c.result.dataUrl.kind = "tab"
         /\ \/ Min(RasterW(c.rect), c.result.dataUrl.width - RasterX(c.rect)) <= 0
            \/ Min(RasterH(c.rect), c.result.dataUrl.height - RasterY(c.rect)) <= 0
           -> "out of bounds"
      [] OTHER -> "other"

\* C8: each cause yields its own reason - a missing target the not-found
\* reason (and no tab capture), a non-positive size the zero-size reason, a
\* collaborator error its message unchanged, a crop clamped to nothing the
\* out-of-bounds reason - and different causes never yield the same reason.
C8_DistinctReasons ==
    /\ \A i \in Captures :
          (cap[i].pc = "done" /\ Cause(cap[i]) # "other") =>
              /\ cap[i].outcome = "failed"
              /\ Cause(cap[i]) = "not found" =>
                    cap[i].reason = NotFoundMsg /\ ~Logged(cap[i], "CAPTURE_TAB")
              /\ Cause(cap[i]) = "zero size" => cap[i].reason = ZeroSizeMsg
              /\ Cause(cap[i]) = "capture error" => cap[i].reason = cap[i].result.error
              /\ Cause(cap[i]) = "out of bounds" => cap[i].reason = OutOfBoundsMsg
    /\ \A i \in Captures, j \in Captures :
          ( /\ cap[i].pc = "done" /\ cap[j].pc = "done"
            /\ Cause(cap[i]) # "other" /\ Cause(cap[j]) # "other"
            /\ Cause(cap[i]) # Cause(cap[j]) )
          => cap[i].reason # cap[j].reason

\* One capture failed on a vanished target, another on a zero-size one.
C8_Witness ==
    \E i \in Captures, j \in Captures :
        /\ cap[i].pc = "done" /\ Cause(cap[i]) = "not found"
        /\ cap[j].pc = "done" /\ Cause(cap[j]) = "zero size"

\* C9: the step that ends an invocation, ready or failed, leaves the capture
\* button enabled and the loading indicator hidden; when it failed, the
\* failure message and the idle panel are shown.
C9_Retriggerable ==
    [][\A i \in Captures :
          (cap[i].pc \in InFlight /\ cap'[i].pc = "done") =>
              /\ ~ui'.btnDisabled
              /\ ui'.loadingHidden
              /\ cap'[i].outcome \in {"ready", "failed"}
              /\ cap'[i].outcome = "failed" =>
                    /\ ui'.hint = FailedHint(cap'[i].reason)
                    /\ cap'[i].reason # ""
                    /\ ~ui'.idleHidden]_vars

\* A capture ended ready, the next one failed, and the button works again.
C9_Witness ==
    \E i \in Captures, j \in Captures :
        /\ cap[i].outcome = "ready" /\ cap[j].outcome = "failed"
        /\ i < j
        /\ ~ui.btnDisabled /\ ui.loadingHidden /\ ui.hint.kind = "failed"

\* The steps of one invocation, in the order of the try block.
PipelineSteps == <<"scrollAndGetRect", "CAPTURE_TAB", "cropImage", "publish">>

IsPrefix(s, t) == Len(s) <= Len(t) /\ \A k \in 1..Len(s) : s[k] = t[k]

\* C11: within an invocation the steps come in the order geometry, tab
\* capture, crop, publish: CAPTURE_TAB is sent only with a rect of positive
\* size in hand, cropImage is called only with an image returned, ready is
\* reached only with the crop of that image by that rect; an invocation
\* starts by showing the loading state and ends, ready or failed, only from
\* there, one step at a time.
C11_PipelineOrder ==
    /\ [](\A i \in Captures :
            /\ IsPrefix(cap[i].log, PipelineSteps)
            /\ Logged(cap[i], "CAPTURE_TAB") =>
                  cap[i].rect.found /\ cap[i].rect.width > 0 /\ cap[i].rect.height > 0
            /\ Logged(cap[i], "cropImage") => cap[i].result.kind = "dataUrl"
            /\ (Logged(cap[i], "publish") \/ cap[i].outcome = "ready") =>
                  /\ Len(cap[i].log) = 4
                  /\ cropImage(cap[i].result.dataUrl, cap[i].rect)
                        = [ok |-> TRUE, url |-> cap[i].cropped])
    /\ [][\A i \in Captures :
            /\ (cap[i].pc = "unused" /\ cap'[i].pc # "unused") =>
                  /\ cap'[i].pc = "geom" /\ cap'[i].outcome = "none"
                  /\ ~ui'.loadingHidden /\ ui'.viewportHidden /\ ui'.idleHidden
            /\ cap'[i].pc = "tab" => cap[i].pc \in {"geom", "tab"}
            /\ cap'[i].pc = "decode" => cap[i].pc \in {"tab", "decode"}
            /\ cap'[i].pc = "render" => cap[i].pc \in {"decode", "render"}
            /\ (cap'[i].outcome = "ready" /\ cap[i].outcome # "ready") =>
                  cap[i].pc = "render" /\ ~ui'.viewportHidden
            /\ (cap'[i].outcome = "failed" /\ cap[i].outcome # "failed") =>
                  cap[i].pc \in InFlight]_vars

\* A capture went through all four steps and is ready.
C11_Witness ==
    \E i \in Captures :
        /\ cap[i].outcome = "ready" /\ cap[i].log = PipelineSteps
        /\ ~ui.viewportHidden /\ ui.loadingHidden

-----------------------------------------------------------------------------
(* Properties of zoomFit (checked under ZoomSpec). *)

FitCalled == zoomCall.op = "zoomFit" /\ img.naturalWidth > 0

\* C12: after zoomFit on a loaded image, scale = fitScale is the largest
\* factor <= 1 at which the image fits the viewport in both directions,
\* min(vw/iw, vh/ih, 1), and the scaled image is centred: 2*tx + iw*scale = vw,
\* 2*ty + ih*scale = vh.  Viewport 800x600 and image 400x300 give scale 1,
\* translate (200, 150).
C12_FitFormula ==
    /\ FitCalled =>
         LET vw == RInt(clientWidth(ui, vpBox))
             vh == RInt(clientHeight(ui, vpBox))
             iw == RInt(img.naturalWidth)
             ih == RInt(img.naturalHeight)
             s == zoom.scale
         IN  /\ zoom.fitScale = s
             /\ RLe(s, RInt(1)) /\ RLe(RMul(iw, s), vw) /\ RLe(RMul(ih, s), vh)
             /\ s = RInt(1) \/ RMul(iw, s) = vw \/ RMul(ih, s) = vh
             /\ s = RMin(RMin(RDiv(vw, iw), RDiv(vh, ih)), RInt(1))
             /\ RAdd(RMul(RInt(2), zoom.tx), RMul(iw, s)) = vw
             /\ RAdd(RMul(RInt(2), zoom.ty), RMul(ih, s)) = vh
    /\ zoomFit(zoom, 800, 600, 400, 300)
          = [scale |-> RInt(1), fitScale |-> RInt(1), tx |-> RInt(200), ty |-> RInt(150)]

\* A fit of an image smaller than the viewport, from a zoomed or panned view.
C12_Witness ==
    /\ FitCalled /\ zoomCall.before # zoom
    /\ img.naturalWidth = 4 /\ zoom.scale = RInt(1) /\ zoom.tx = RInt(2)

\* C13: a zoomFit that follows a zoomFit, container and image unchanged,
\* leaves the transform that the first one produced; at any state produced
\* by zoomFit, applying zoomFit yields that state's transform.
C13_FitIdempotent ==
    FitCalled =>
        /\ zoomFit(zoom, clientWidth(ui, vpBox), clientHeight(ui, vpBox),
                   img.naturalWidth, img.naturalHeight) = zoom
        /\ zoomCall.prevOp = "zoomFit" => zoom = zoomCall.before

\* Two fits in a row of an image that is scaled down and centred off the origin.
C13_Witness ==
    /\ FitCalled /\ zoomCall.prevOp = "zoomFit"
    /\ zoom.scale = Rat(1, 2) /\ zoom.tx # RInt(0)

-----------------------------------------------------------------------------
(* Properties of scrollAndGetRect (checked under Spec). *)

\* C14: the rect that scrollAndGetRect resolves with is the visible
\* intersection of the iframe's box with the viewport - x = max(left, 0),
\* y = max(top, 0), width = min(right, viewportWidth) - x,
\* height = min(bottom, viewportHeight) - y - with width and height reported
\* as zero, never negative, when the box lies outside the viewport.
C14_VisibleIntersection ==
    [][\A i \in Captures :
          (cap[i].pc = "geom" /\ cap'[i].rect.found) =>
              LET box == BoundingBox(page[cap[i].captureIndex + 1], cap[i].captureIndex)
                  rect == cap'[i].rect
                  r == RMin(box.right, RInt(PageViewport.w))
                  b == RMin(box.bottom, RInt(PageViewport.h))
              IN  /\ rect.x = RMax(box.left, RInt(0))
                  /\ rect.y = RMax(box.top, RInt(0))
                  /\ RInt(rect.width) = RMax(RInt(0), RSub(r, rect.x))
                  /\ RInt(rect.height) = RMax(RInt(0), RSub(b, rect.y))
                  /\ rect.width >= 0 /\ rect.height >= 0]_vars

-----------------------------------------------------------------------------
(* Properties of the view transform across captures (checked under Spec). *)

\* C15: the scale of the view transform is strictly positive in every
\* reachable state.
C15_ScalePositive == RLt(RInt(0), zoom.scale)

\* Invocation i reaches the ready state in this step.
BecomesReady(i) == cap[i].outcome # "ready" /\ cap'[i].outcome = "ready"

\* C16: the step that takes a capture to the ready state displays that
\* capture's crop and leaves the fit transform of it in the container as it
\* is then - scale = fitScale = min(cw/w, ch/h, 1), the image centred -
\* whatever the transform was before; any other step that changes the
\* transform is a zoom, pan or fit event.
C16_ResetOnReady ==
    [][/\ \A i \in Captures :
             BecomesReady(i) =>
                 LET w == RInt(cap[i].cropped.width)
                     h == RInt(cap[i].cropped.height)
                     cw == RInt(clientWidth(ui', vpBox'))
                     ch == RInt(clientHeight(ui', vpBox'))
                     fit == RMin(RMin(RDiv(cw, w), RDiv(ch, h)), RInt(1))
                 IN  /\ img'.src = cap[i].cropped /\ ~img'.pending
                     /\ img'.naturalWidth = cap[i].cropped.width
                     /\ img'.naturalHeight = cap[i].cropped.height
                     /\ zoom'.scale = fit /\ zoom'.fitScale = fit
                     /\ RAdd(RMul(RInt(2), zoom'.tx), RMul(w, fit)) = cw
                     /\ RAdd(RMul(RInt(2), zoom'.ty), RMul(h, fit)) = ch
       /\ (zoom' # zoom /\ \A i \in Captures : ~BecomesReady(i)) =>
             /\ zsteps' = zsteps + 1
             /\ zoomCall'.op \in {"zoomAtPoint", "zoomFit", "mousemove"}]_vars

\* A second capture became ready after the first one's view had been zoomed:
\* the fit that follows a zoomAtPoint with a single interaction so far is the
\* capture's own.
C16_Witness ==
    /\ \A i \in Captures : cap[i].outcome = "ready"
    /\ zsteps = 1
    /\ zoomCall.op = "zoomFit" /\ zoomCall.prevOp = "zoomAtPoint"
    /\ zoomCall.before.scale # zoom.scale
    /\ zoom.scale = RInt(1)

-----------------------------------------------------------------------------
(* Properties of the drag (checked under ZoomSpec). *)

\* The event handled by this step.
Handled(op) == zsteps' = zsteps + 1 /\ zoomCall'.op = op

\* C17: a drag lasts from a left-button mousedown to the next mouseup; in a
\* drag, the first mousemove after the mousedown moves the translate found at
\* the mousedown by the cursor's displacement from the mousedown point, and
\* a mousemove after a mousemove moves it by the displacement between the
\* two, without clamping and without touching scale and fitScale; outside a
\* drag a mousemove leaves the transform unchanged.
C17_DragPan ==
    [][/\ Handled("mousedown") =>
             /\ zoom' = zoom
             /\ drag'.active <=> (zoomCall'.button = 0 \/ drag.active)
       /\ Handled("mouseup") => ~drag'.active /\ zoom' = zoom
       /\ (zsteps' = zsteps + 1 /\ zoomCall'.op \notin {"mousedown", "mouseup"}) =>
             drag'.active <=> drag.active
       /\ (Handled("mousemove") /\ ~drag.active) => zoom' = zoom
       /\ (Handled("mousemove") /\ drag.active) =>
             /\ zoom'.scale = zoom.scale /\ zoom'.fitScale = zoom.fitScale
             /\ ( \/ zoomCall.op = "mousedown" /\ zoomCall.button = 0
                  \/ zoomCall.op = "mousemove" /\ zoomCall.dragging.active ) =>
                   /\ zoom'.tx = RAdd(zoom.tx, RInt(zoomCall'.clientX - zoomCall.clientX))
                   /\ zoom'.ty = RAdd(zoom.ty, RInt(zoomCall'.clientY - zoomCall.clientY))]_vars

\* A drag carried the image's origin out of the viewport, up and to the left.
C17_Witness ==
    /\ zoomCall.op = "mousemove" /\ zoomCall.dragging.active
    /\ RLt(zoom.tx, RInt(0)) /\ RLt(zoom.ty, RInt(0))
    /\ zoom.scale = zoomCall.before.scale

\* The cursor displacements between two mouse events.
CursorMoves == { <<p[1] - q[1], p[2] - q[2]>> : p \in MousePoints, q \in MousePoints }

\* C18: every handler applies its update to the transform that the handler
\* before it left: a mousemove of a drag that follows a zoom or fit which
\* changed the transform moves that transform's translate by a cursor
\* displacement, keeping the zoom's adjustment of the translate.
C18_HandlersAtomic ==
    [][( /\ Handled("mousemove") /\ drag.active
         /\ zoomCall.op \in {"zoomAtPoint", "zoomFit"}
         /\ zoom # zoomCall.before )
       => \E d \in CursorMoves :
             /\ zoom'.tx = RAdd(zoom.tx, RInt(d[1]))
             /\ zoom'.ty = RAdd(zoom.ty, RInt(d[2]))]_vars

-----------------------------------------------------------------------------
(* Properties of the hover highlight (checked under HighlightSpec). *)

\* C19: at most one debounce timer is pending; a highlightPageIframe call
\* that was followed by another one while its timer was pending never
\* reaches the page: it has no injection in flight, no placement pending, and
\* has not mutated the page.
C19_HighlightDebounce ==
    /\ Cardinality(hlPending) <= 1
    /\ \A t \in hlPending : t.id = highlightTimer
    /\ \A id \in hlLog.superseded :
          /\ id \notin hlLog.mutated
          /\ \A k \in 1..Len(hlScripts) : hlScripts[k].call # id
          /\ \A t \in placeTimers : t.call # id
          /\ \A t \in hlPending : t.id # id

\* Of three calls in a row the first two were superseded and the third one
\* put the box on the page.
C19_Witness ==
    /\ hlLog.superseded = {1, 2}
    /\ hlLog.mutated = {3}
    /\ overlay.box # -1 /\ overlay.style

\* Nothing of the highlight is pending, in the popup or in the page.
HighlightQuiet == hlPending = {} /\ hlScripts = <<>> /\ placeTimers = {}

\* C20: when clearPageIframeHighlight was the last call, its removal has run
\* in the page and nothing is pending any more, the overlay is absent.
C20_NoLeakedOverlay ==
    (hlLog.last = "clear" /\ hlLog.calls \in hlLog.ran /\ HighlightQuiet)
        => overlay.box = -1

\* An injection of clearPageIframeHighlight runs in the page in this step.
ClearRuns ==
    /\ hlScripts # <<>> /\ Head(hlScripts).kind = "clear"
    /\ Head(hlScripts).call \notin hlLog.ran
    /\ Head(hlScripts).call \in hlLog'.ran

\* C21: however often the overlay is applied, for whichever targets, the page
\* holds at most one box element, a placeBox that finds one reusing it; a
\* clear that runs in the page, with or without an overlay there, leaves no
\* box and no style and raises no error.
C21_OverlayIdempotent ==
    /\ [](overlay.boxes <= 1 /\ hlLog.threw = {})
    /\ [][/\ ClearRuns => overlay' = NoOverlay
          /\ (hlLog'.placed = hlLog.placed + 1 /\ overlay.boxes = 1) =>
                overlay'.boxes = 1]_vars

\* The overlay was placed twice and the page holds one box.
C21_Witness == hlLog.placed >= 2 /\ overlay.boxes = 1 /\ overlay.style

\* C28: a highlight request whose debounce timer was still pending when
\* clearPageIframeHighlight was called never reaches the page: its timer is
\* gone, it has no injection in flight and no placement pending, and it has
\* not touched the page.
C28_ClearCancelsShow ==
    \A id \in hlLog.cleared :
        /\ \A t \in hlPending : t.id # id
        /\ \A k \in 1..Len(hlScripts) : hlScripts[k].call # id
        /\ \A t \in placeTimers : t.call # id
        /\ id \notin hlLog.ran /\ id \notin hlLog.mutated

\* A hover was cleared within its 80 ms; the clear has run, nothing is
\* pending and the page was never touched.
C28_Witness ==
    /\ 1 \in hlLog.cleared /\ 2 \in hlLog.ran
    /\ HighlightQuiet /\ overlay = NoOverlay /\ hlLog.mutated = {}

-----------------------------------------------------------------------------
(* Properties of the preview (checked under PreviewSpec). *)

PreviewBlocked == ~preview.blockedHidden /\ preview.loadingHidden

\* C22: an attempt that has produced neither load nor error has its 8 s timer
\* pending or has been marked blocked by it; a timer that fires marks the
\* preview blocked and hides the loading indicator, and so does an error
\* event, at once.
C22_PreviewTimeout ==
    /\ [](preview.attempt = "loading" =>
             \/ [id |-> preview.loadTimer] \in pvTimers
             \/ PreviewBlocked)
    /\ [][/\ preview'.last = "timeout" /\ pvTimers' # pvTimers => PreviewBlocked'
          /\ (preview.attempt = "loading" /\ preview'.attempt = "errored") =>
                PreviewBlocked' /\ [id |-> preview.loadTimer] \notin pvTimers']_vars

\* A reload that got no answer was marked blocked by its timer.
C22_Witness ==
    /\ preview.open /\ preview.attempt = "loading" /\ preview.last = "timeout"
    /\ preview.timersSet = 2 /\ pvTimers = {}
    /\ PreviewBlocked

\* C27: once the current attempt has completed with a load event, no timer
\* that fires marks the preview blocked.
C27_NoStaleTimeout ==
    [][( /\ preview.attempt = "loaded" /\ preview.blockedHidden
         /\ preview'.last = "timeout" /\ pvTimers' # pvTimers )
       => preview'.blockedHidden]_vars

-----------------------------------------------------------------------------
(* Termination of captures. *)

\* Invocation i waits on the load of #snapshot-img while its resolver is no
\* longer the image's onload, or no load is pending: no answer can reach it.
Orphaned(i) == cap[i].pc = "render" /\ ~(img.pending /\ img.onload = i)

\* C23: a capture that has started ends, ready or failed, once its
\* collaborators have answered: an invocation that waits for the image load
\* is the one the pending load will resume.
C23_CaptureTerminates == \A i \in Captures : ~Orphaned(i)

-----------------------------------------------------------------------------
(* Properties of the service worker (checked under WorkerSpec). *)

\* C24: every CAPTURE_TAB message whose captureVisibleTab call has settled
\* was answered exactly once, with {dataUrl} when the call resolved and with
\* {error: message} when it was rejected; while the call is pending nothing
\* was sent; a message of another type is never answered and its port is not
\* kept open; an answer is sent only by the step that settles the call.
C24_AnswersExactlyOnce ==
    /\ \A k \in 1..Len(worker) :
          LET m == worker[k]
          IN  /\ m.type # "CAPTURE_TAB" => m.responses = <<>> /\ ~m.returned
              /\ m.type = "CAPTURE_TAB" => m.returned
              /\ (m.type = "CAPTURE_TAB" /\ m.call = "pending") => m.responses = <<>>
              /\ (m.type = "CAPTURE_TAB" /\ m.call = "settled") =>
                    /\ Len(m.responses) = 1
                    /\ m.outcome.kind = "resolved" =>
                          m.responses[1] = [kind |-> "dataUrl", dataUrl |-> m.outcome.dataUrl]
                    /\ m.outcome.kind = "rejected" =>
                          m.responses[1] = [kind |-> "error", error |-> m.outcome.message]
                    /\ m.responses[1] \in TabResponses(scrolledTo)

\* A resolved and a rejected capture were answered, another message was not.
C24_Witness ==
    /\ \E k \in 1..Len(worker) :
          worker[k].call = "settled" /\ worker[k].outcome.kind = "resolved"
          /\ Len(worker[k].responses) = 1
    /\ \E k \in 1..Len(worker) :
          worker[k].call = "settled" /\ worker[k].outcome.kind = "rejected"
          /\ Len(worker[k].responses) = 1
    /\ \E k \in 1..Len(worker) : worker[k].type = "OTHER"

-----------------------------------------------------------------------------
(* The snapshot and the modal's target (checked under Spec). *)

\* C25: while the modal is open, a snapshot that can be saved was captured
\* from the target the modal is about: some invocation that captured ordinal
\* activeModalIndex produced it.
C25_SnapshotOfTarget ==
    (~ui.modalHidden /\ lastSnapshotUrl # NoUrl) =>
        \E i \in Captures : /\ cap[i].cropped = lastSnapshotUrl
                            /\ cap[i].captureIndex = activeModalIndex

-----------------------------------------------------------------------------
(* The cards and the scanned records (checked under CardSpec). *)

\* C26: the modal opened from a card shows the record of the card's iframe,
\* the one whose document ordinal is the card's.
C26_ModalShowsCardRecord ==
    ~ui.modalHidden => ModalRecord.index = activeModalIndex

-----------------------------------------------------------------------------
(* The wheel's round trip (checked under ZoomSpec). *)

\* The scale a zoomAtPoint call asked for lies within [MIN, MAX].
Unclamped(c) == RLe(ZoomMIN, c.requested) /\ RLe(c.requested, ZoomMAX)

\* The last two handlers were wheel ticks of opposite directions at one
\* cursor position, and neither scale was clamped.
WheelRoundTrip ==
    /\ "deltaY" \in DOMAIN zoomCall
    /\ zoomCall.prev.wheel
    /\ (zoomCall.prev.deltaY < 0) # (zoomCall.deltaY < 0)
    /\ zoomCall.prev.vpX = zoomCall.vpX /\ zoomCall.prev.vpY = zoomCall.vpY
    /\ Unclamped(zoomCall.prev) /\ Unclamped(zoomCall)

\* C29: a wheel tick in followed by a wheel tick out at the same cursor
\* position, or the reverse, neither clamped, leaves the scale and the
\* translate the transform had before the first tick.
C29_WheelRoundTrip ==
    WheelRoundTrip =>
        /\ zoom.scale = zoomCall.prev.before.scale
        /\ zoom.tx = zoomCall.prev.before.tx
        /\ zoom.ty = zoomCall.prev.before.ty

\* In then out, and out then in, away from the viewport's origin, where the
\* first tick moved the translate.
C29_Witness ==
    /\ WheelRoundTrip
    /\ zoomCall.vpX = RInt(3)
    /\ zoomCall.before.tx # zoom.tx
    /\ zoomCall.deltaY > 0

C29_WitnessReverse ==
    /\ WheelRoundTrip
    /\ zoomCall.vpX = RInt(8)
    /\ zoomCall.before.tx # zoom.tx
    /\ zoomCall.deltaY < 0

-----------------------------------------------------------------------------
(* The guard of handleCapture (checked under Spec). *)

\* C30: an auto-capture timer that fires while no modal is open, or while
\* there is no current tab, changes nothing: no invocation starts (no
\* injection, no CAPTURE_TAB message), and the capture button, the loading
\* indicator and the rest of the panel, lastSnapshotUrl, the image and the
\* view transform stay as they were.
C30_GuardedStart ==
    [][( /\ timers' = timers - 1
         /\ (activeModalIndex < 0 \/ currentTabId = NoTab) )
       => /\ cap' = cap /\ started' = started
          /\ ui' = ui /\ img' = img
          /\ lastSnapshotUrl' = lastSnapshotUrl
          /\ zoom' = zoom
          /\ scrolledTo' = scrolledTo
          /\ activeModalIndex' = activeModalIndex]_vars

\* On a page whose cards all open their modal, the one timer set has fired
\* and no capture ever started: it fired after the modal was closed.
C30_Witness ==
    /\ Len(iframeList) = 2 /\ iframeList[2].index = 1
    /\ clicks = 1 /\ timers = 0 /\ started = 0
    /\ activeModalIndex < 0 /\ ui.modalHidden

====
